---- MODULE Spec2Model ----
(***************************************************************************)
(* Model of src/main.rs: a line matcher for a restricted regular           *)
(* expression dialect.  parse_pattern compiles a pattern string into a     *)
(* vector of CharacterClass nodes; pattern_matches walks that vector       *)
(* against the line from every start offset.                               *)
(*                                                                         *)
(* A Rust char is a TLA+ string, a &str / String is a sequence of them.     *)
(* Strings are UTF-8: the range indices of &input_str[a..b] and the loop   *)
(* variable i count bytes, while chars() yields characters, so every       *)
(* character carries its encoded length and slicing off a character        *)
(* boundary panics.  Offsets are 0-based as in the source; sequences are   *)
(* 1-based, hence the +1 on every subscript.                               *)
(***************************************************************************)
EXTENDS Integers, Sequences, FiniteSets, TLC

VARIABLES
    pattern_str,   \* the pattern argument of pattern_matches
    input_str,     \* the line argument of pattern_matches
    patterns,      \* the compiled nodes (let patterns = parse_pattern(..))
    pc,            \* position inside pattern_matches
    i,             \* start offset of the for loop (a byte offset)
    pattern_idx,   \* node cursor of the current walk
    cursor,        \* characters of input_str consumed by input_chars so far
    result         \* "none" while running, then "true" / "false",
                   \* "compile_panic" (panic inside parse_pattern) or
                   \* "panic" (out-of-range slice or index in pattern_matches)

vars == <<pattern_str, input_str, patterns, pc, i, pattern_idx, cursor, result>>

----------------------------------------------------------------------------
(* Bounds of the checked input space *)

MaxPatternLen == 4
MaxLineLen == 3
MaxCompileLen == 4
MaxClassNodes == 3
MaxClassLineLen == 3

BackSlash == "\\"
\* the character U+00E9, two bytes in UTF-8
Wide == "U+00E9"

\* characters patterns of the matcher specification are built from
MatchPatternChars == {"a", "b", "^", "$", "+"}
MatchLineChars == {"a", "b", Wide}
\* characters patterns of the compiler specification are built from
CompilePatternChars == {"a", "d", "w", BackSlash, "[", "]", "^", "$", "+"}
CompileLines == {<<>>, <<"a">>, <<Wide, "a">>}
\* pattern pieces that compile to one single-character node each
ClassAtoms == { <<"a">>, <<BackSlash, "d">>, <<BackSlash, "w">>,
                <<BackSlash, "$">>, <<"[", "a", "b", "]">>,
                <<"[", "^", "a", "b", "]">> }
ClassLineChars == {"a", "b", "1", "$", Wide}

Seqs(S, n) == UNION {[1..k -> S] : k \in 0..n}

RECURSIVE Concats(_, _)
Concats(A, n) ==
    IF n = 0 THEN {<<>>}
    ELSE LET prev == Concats(A, n - 1)
         IN  prev \cup {p \o a : p \in prev, a \in A}

----------------------------------------------------------------------------
(* enum CharacterClass *)

Literal(c) == [kind |-> "Literal", ch |-> c]
CharGroup(g) == [kind |-> "CharGroup", group |-> g]
NegativeCharGroup(g) == [kind |-> "NegativeCharGroup", group |-> g]
Digit == [kind |-> "Digit"]
Alphanumeric == [kind |-> "Alphanumeric"]
StartAnchor(c) == [kind |-> "StartAnchor", ch |-> c]
EndAnchor(n) == [kind |-> "EndAnchor", child |-> n]
OneOrMore(n) == [kind |-> "OneOrMore", child |-> n]

\* char::is_ascii_digit and char::is_alphanumeric on the characters in use
is_ascii_digit(c) == c \in {"0", "1", "2", "3", "4", "5", "6", "7", "8", "9"}
is_alphanumeric(c) == is_ascii_digit(c) \/ c \in {"a", "b", "d", "w", Wide}

----------------------------------------------------------------------------
(* UTF-8 strings: byte lengths and range indexing *)

\* char::len_utf8
len_utf8(c) == IF c = Wide THEN 2 ELSE 1

\* str::len
RECURSIVE byte_len(_)
byte_len(s) == IF s = <<>> THEN 0 ELSE len_utf8(Head(s)) + byte_len(Tail(s))

\* str::is_char_boundary
is_char_boundary(s, b) == \E k \in 0..Len(s) : byte_len(SubSeq(s, 1, k)) = b

\* the number of characters that end at or before the boundary b
chars_before(s, b) == CHOOSE k \in 0..Len(s) : byte_len(SubSeq(s, 1, k)) = b

\* &s[from..to]: the slice, or a panic when an index is out of range or
\* inside a character
slice(s, from, to) ==
    IF /\ 0 <= from /\ from <= to /\ to <= byte_len(s)
       /\ is_char_boundary(s, from) /\ is_char_boundary(s, to)
    THEN [ok |-> TRUE, str |-> SubSeq(s, chars_before(s, from) + 1, chars_before(s, to))]
    ELSE [ok |-> FALSE, str |-> <<>>]

----------------------------------------------------------------------------
(* parse_pattern *)

Panic == [ok |-> FALSE, nodes |-> <<>>]
Parsed(ns) == [ok |-> TRUE, nodes |-> ns]

\* the inner match of the '\\' arm: the node pushed for the escaped character
escape_known_any(c) == TRUE
escape_known(c) == c \in {"d", "w", BackSlash, "[", "^", "$", "+"}
escape_class(c) ==
    CASE c = "d" -> Digit
      [] c = "w" -> Alphanumeric
      [] OTHER   -> Literal(c)

\* collect_until(chars, ']') started with the iterator at 0-based offset from:
\* the collected string and the offset just past the end character, or a panic
\* if the iterator runs dry
RECURSIVE collect_until(_, _, _, _)
collect_until(p, from, end_char, acc) ==
    IF from >= Len(p) THEN [ok |-> FALSE, result |-> acc, next |-> from]
    ELSE IF p[from + 1] = end_char
         THEN [ok |-> TRUE, result |-> acc, next |-> from + 1]
         ELSE collect_until(p, from + 1, end_char, Append(acc, p[from + 1]))

\* the '$' arm after its peek test
wrap_end_anchor(char_classes) ==
    IF char_classes = <<>> THEN char_classes
    ELSE Append(SubSeq(char_classes, 1, Len(char_classes) - 1),
                EndAnchor(char_classes[Len(char_classes)]))

\* the '+' arm after its emptiness test
wrap_one_or_more(char_classes) ==
    Append(SubSeq(char_classes, 1, Len(char_classes) - 1),
           OneOrMore(char_classes[Len(char_classes)]))

\* the while-let loop of parse_pattern with the iterator at 0-based offset k
RECURSIVE parse_from(_, _, _)
parse_from(p, k, char_classes) ==
    IF k >= Len(p) THEN Parsed(char_classes)
    ELSE LET ch == p[k + 1]
             more == k + 1 < Len(p)
         IN
         CASE ch = BackSlash ->
                IF ~more THEN Panic
                ELSE IF ~escape_known(p[k + 2]) THEN Panic
                ELSE parse_from(p, k + 2, Append(char_classes, escape_class(p[k + 2])))
           [] ch = "[" ->
                IF ~more THEN Panic
                ELSE LET neg == p[k + 2] = "^"
                         g == collect_until(p, IF neg THEN k + 2 ELSE k + 1, "]", <<>>)
                     IN IF ~g.ok THEN Panic
                        ELSE parse_from(p, g.next,
                               Append(char_classes,
                                      IF neg THEN NegativeCharGroup(g.result)
                                             ELSE CharGroup(g.result)))
           [] ch = "^" ->
                IF ~more THEN Panic
                ELSE IF char_classes # <<>> THEN Panic
                ELSE parse_from(p, k + 2, Append(char_classes, StartAnchor(p[k + 2])))
           [] ch = "$" ->
                IF more THEN Panic
                ELSE parse_from(p, k + 1, wrap_end_anchor(char_classes))
           [] ch = "+" ->
                IF char_classes = <<>> THEN Panic
                ELSE parse_from(p, k + 1, wrap_one_or_more(char_classes))
           [] OTHER -> parse_from(p, k + 1, Append(char_classes, Literal(ch)))

parse_pattern(p) == parse_from(p, 0, <<>>)

----------------------------------------------------------------------------
(* match_pattern *)

\* str::contains(char)
contains(input_line, c) == \E k \in 1..Len(input_line) : input_line[k] = c
\* str::starts_with(&char.to_string())
starts_with(input_line, c) == Len(input_line) >= 1 /\ input_line[1] = c
\* group.chars().collect::<HashSet<char>>()
char_set(group) == {group[k] : k \in 1..Len(group)}

char_group_matches(input_line, group) ==
    \E c \in char_set(group) : contains(input_line, c)
negative_char_group_matches(input_line, group) ==
    ~(\E c \in char_set(group) : contains(input_line, c))

RECURSIVE match_pattern(_, _)
match_pattern(input_line, pattern) ==
    CASE pattern.kind = "Literal" -> contains(input_line, pattern.ch)
      [] pattern.kind = "NegativeCharGroup" ->
            negative_char_group_matches(input_line, pattern.group)
      [] pattern.kind = "CharGroup" -> char_group_matches(input_line, pattern.group)
      [] pattern.kind = "Digit" ->
            \E k \in 1..Len(input_line) : is_ascii_digit(input_line[k])
      [] pattern.kind = "Alphanumeric" ->
            \E k \in 1..Len(input_line) : is_alphanumeric(input_line[k])
      [] pattern.kind = "StartAnchor" -> starts_with(input_line, pattern.ch)
      [] pattern.kind = "EndAnchor" -> match_pattern(input_line, pattern.child)
      [] pattern.kind = "OneOrMore" -> match_pattern(input_line, pattern.child)

----------------------------------------------------------------------------
(* handle_quantifier *)

\* the while-let loop: at is the number of characters char_iter has yielded
RECURSIVE consume_while(_, _, _)
consume_while(line, at, char_class) ==
    IF at < Len(line) /\ match_pattern(<<line[at + 1]>>, char_class)
    THEN consume_while(line, at + 1, char_class)
    ELSE at

\* if-let in place of while-let: at most one repetition is consumed
handle_quantifier_once(line, at, pattern) ==
    IF /\ pattern.kind = "OneOrMore"
       /\ at < Len(line)
       /\ match_pattern(<<line[at + 1]>>, pattern.child)
    THEN at + 1
    ELSE at
handle_quantifier(line, at, pattern) ==
    IF pattern.kind = "OneOrMore" THEN consume_while(line, at, pattern.child)
    ELSE at

----------------------------------------------------------------------------
(* pattern_matches *)

first_is_start_anchor(ns) == Len(ns) > 0 /\ ns[1].kind = "StartAnchor"
last_is_end_anchor(ns) == Len(ns) > 0 /\ ns[Len(ns)].kind = "EndAnchor"

\* the test made when the last node has matched: break instead of return true
end_anchor_rejects(ns, line, at) == last_is_end_anchor(ns) /\ at < Len(line)

Finish(r) ==
    /\ pc' = "done"
    /\ result' = r

\* let patterns = parse_pattern(pattern_str);
Compile ==
    /\ pc = "parse"
    /\ LET r == parse_pattern(pattern_str)
       IN IF r.ok
          THEN /\ patterns' = r.nodes
               /\ pc' = "start_check"
               /\ UNCHANGED result
          ELSE /\ patterns' = <<>>
               /\ Finish("compile_panic")
    /\ UNCHANGED <<pattern_str, input_str, i, pattern_idx, cursor>>

\* if let Some(StartAnchor(_)) = patterns.get(0) { .. &input_str[0..1] .. }
StartAnchorCheck ==
    /\ pc = "start_check"
    /\ IF ~first_is_start_anchor(patterns)
       THEN pc' = "end_check" /\ UNCHANGED result
       ELSE IF ~slice(input_str, 0, 1).ok
       THEN Finish("panic")
       ELSE IF ~match_pattern(slice(input_str, 0, 1).str, patterns[1])
       THEN Finish("false")
       ELSE pc' = "end_check" /\ UNCHANGED result
    /\ UNCHANGED <<pattern_str, input_str, patterns, i, pattern_idx, cursor>>

\* if let Some(EndAnchor(_)) = patterns.last() { .. &input_str[len - 1..len] .. }
EndAnchorCheck ==
    /\ pc = "end_check"
    /\ IF ~last_is_end_anchor(patterns)
       THEN pc' = "scan" /\ UNCHANGED result
       \* on the empty line len() - 1 overflows (a panic) or wraps to an index
       \* past the end (a panic of the slice): -1 is out of range either way
       ELSE IF ~slice(input_str, byte_len(input_str) - 1, byte_len(input_str)).ok
       THEN Finish("panic")
       ELSE IF ~match_pattern(
                   slice(input_str, byte_len(input_str) - 1, byte_len(input_str)).str,
                   patterns[Len(patterns)])
       THEN Finish("false")
       ELSE pc' = "scan" /\ UNCHANGED result
    /\ UNCHANGED <<pattern_str, input_str, patterns, i, pattern_idx, cursor>>

\* one turn of for i in 0..input_str.len() up to input_str[i..].chars(),
\* or the final false
NextOffset ==
    /\ pc = "scan"
    /\ IF i < byte_len(input_str)
       THEN IF ~slice(input_str, i, byte_len(input_str)).ok
            THEN /\ Finish("panic")
                 /\ UNCHANGED <<pattern_idx, cursor>>
            ELSE /\ pattern_idx' = 0
                 /\ cursor' = chars_before(input_str, i)
                 /\ pc' = "walk"
                 /\ UNCHANGED result
       ELSE /\ Finish("false")
            /\ UNCHANGED <<pattern_idx, cursor>>
    /\ UNCHANGED <<pattern_str, input_str, patterns, i>>

Break(at) ==
    /\ i' = i + 1
    /\ pc' = "scan"
    /\ cursor' = at
    /\ UNCHANGED <<pattern_idx, result>>

\* one turn of while let Some(ch) = input_chars.next()
WalkStep ==
    /\ pc = "walk"
    /\ IF cursor >= Len(input_str)
       THEN Break(cursor)
       ELSE IF pattern_idx >= Len(patterns)
       THEN Finish("panic") /\ UNCHANGED <<i, pattern_idx, cursor>>
       ELSE LET ch == input_str[cursor + 1]
                node == patterns[pattern_idx + 1]
            IN IF ~match_pattern(<<ch>>, node)
               THEN Break(cursor + 1)
               ELSE LET at == handle_quantifier(input_str, cursor + 1, node)
                    IN IF pattern_idx = Len(patterns) - 1
                       THEN IF end_anchor_rejects(patterns, input_str, at)
                            THEN Break(at)
                            ELSE /\ Finish("true")
                                 /\ cursor' = at
                                 /\ UNCHANGED <<i, pattern_idx>>
                       ELSE /\ pattern_idx' = pattern_idx + 1
                            /\ cursor' = at
                            /\ UNCHANGED <<i, pc, result>>
    /\ UNCHANGED <<pattern_str, input_str, patterns>>

Next ==
    \/ Compile
    \/ StartAnchorCheck
    \/ EndAnchorCheck
    \/ NextOffset
    \/ WalkStep

Start ==
    /\ patterns = <<>>
    /\ pc = "parse"
    /\ i = 0
    /\ pattern_idx = 0
    /\ cursor = 0
    /\ result = "none"

\* anchors and the quantifier over literals
Init ==
    /\ pattern_str \in Seqs(MatchPatternChars, MaxPatternLen)
    /\ input_str \in Seqs(MatchLineChars, MaxLineLen)
    /\ Start

\* every character the compiler dispatches on
InitCompile ==
    /\ pattern_str \in Seqs(CompilePatternChars, MaxCompileLen)
    /\ input_str \in CompileLines
    /\ Start

\* sequences of single-character classes
InitClass ==
    /\ pattern_str \in Concats(ClassAtoms, MaxClassNodes)
    /\ input_str \in Seqs(ClassLineChars, MaxClassLineLen)
    /\ Start

Spec == Init /\ [][Next]_vars
SpecCompile == InitCompile /\ [][Next]_vars
SpecClass == InitClass /\ [][Next]_vars

TypeOK ==
    /\ pc \in {"parse", "start_check", "end_check", "scan", "walk", "done"}
    /\ result \in {"none", "true", "false", "compile_panic", "panic"}
    /\ (pc = "done") = (result # "none")
    /\ i \in 0..byte_len(input_str)
    /\ cursor \in 0..Len(input_str)
    /\ pattern_idx \in 0..Len(patterns)

----------------------------------------------------------------------------
(* Vocabulary of the properties *)

Finished == pc = "done"
Compiled == pc # "parse" /\ result # "compile_panic"

\* the node under any EndAnchor / OneOrMore wrapping
RECURSIVE Innermost(_)
Innermost(node) ==
    IF node.kind \in {"EndAnchor", "OneOrMore"} THEN Innermost(node.child) ELSE node

\* one character satisfies a node (the character-class predicate)
Satisfies(c, node) ==
    LET n == Innermost(node)
    IN  CASE n.kind = "Literal" -> c = n.ch
          [] n.kind = "StartAnchor" -> c = n.ch
          [] n.kind = "CharGroup" -> c \in {n.group[k] : k \in 1..Len(n.group)}
          [] n.kind = "NegativeCharGroup" -> c \notin {n.group[k] : k \in 1..Len(n.group)}
          [] n.kind = "Digit" -> c \in {"0", "1", "2", "3", "4", "5", "6", "7", "8", "9"}
          [] n.kind = "Alphanumeric" -> c \in {"0", "1", "2", "3", "4", "5", "6", "7", "8", "9",
                                              "a", "b", "d", "w", Wide}

\* pattern_matches returned a value
Returned == result \in {"true", "false"}

----------------------------------------------------------------------------
\* C1: if the compiled pattern contains a StartAnchor (also one wrapped by a
\* following + or $) and the line is non-empty with a first character other
\* than the anchor payload, pattern_matches returns false.
C1_StartAnchorMismatchIsFalse ==
    ( /\ Finished /\ Compiled
      /\ Len(patterns) > 0
      /\ Innermost(patterns[1]).kind = "StartAnchor"
      /\ Len(input_str) > 0
      /\ input_str[1] # Innermost(patterns[1]).ch )
    => result = "false"

\* C2: when the last node is an EndAnchor, true is returned only by a walk
\* that has consumed the line to its end, the last consumed character being one
\* the anchored node accepts; and when the line's last character is not one
\* the anchored node accepts, so that every walk leaves input behind, the
\* result is false.
EndAnchorTrueOnlyAtEnd ==
    result = "true" =>
        /\ cursor = Len(input_str)
        /\ cursor >= 1
        /\ Satisfies(input_str[cursor], patterns[Len(patterns)])

C2_EndAnchorConsumesWholeLine ==
    (Finished /\ Compiled /\ last_is_end_anchor(patterns)) =>
        /\ EndAnchorTrueOnlyAtEnd
        /\ ( /\ Len(input_str) > 0
             /\ ~Satisfies(input_str[Len(input_str)], patterns[Len(patterns)]) )
           => result = "false"

\* C2 holds of every run in which pattern_matches returns
C2_WhenReturned ==
    (Finished /\ Compiled /\ last_is_end_anchor(patterns) /\ Returned) =>
        C2_EndAnchorConsumesWholeLine

\* C3: a pattern of n >= 1 single-character nodes matches exactly when some
\* offset o with o + n <= length(line) has line[o + k] satisfy node k for all
\* k < n; a negative group over {a, b} never matches a line over {a, b}.
SingleCharKinds == {"Literal", "Digit", "Alphanumeric", "CharGroup", "NegativeCharGroup"}
SingleCharOnly(ns) == Len(ns) > 0 /\ \A k \in 1..Len(ns) : ns[k].kind \in SingleCharKinds
OccursAt(line, ns, o) == \A k \in 1..Len(ns) : Satisfies(line[o + k], ns[k])
Occurs(line, ns) == \E o \in 0..(Len(line) - Len(ns)) : OccursAt(line, ns, o)

C3_SingleCharSequenceOccurs ==
    (Finished /\ Compiled /\ SingleCharOnly(patterns)) =>
        /\ (result = "true") = Occurs(input_str, patterns)
        /\ result # "true" => result = "false"
        /\ ( /\ pattern_str = <<"[", "^", "a", "b", "]">>
             /\ \A k \in 1..Len(input_str) : input_str[k] \in {"a", "b"} )
           => result = "false"

\* C3 holds of every run in which pattern_matches returns
C3_WhenReturned ==
    (Finished /\ Compiled /\ SingleCharOnly(patterns) /\ Returned) =>
        C3_SingleCharSequenceOccurs

\* C4 reads the pattern text: each position is plain (dispatched on by the
\* scan), escaped (follows a plain backslash) or inside a bracket group.
RECURSIVE ReadAs(_, _, _)
ReadAs(p, k, mode) ==
    IF k > Len(p) THEN <<>>
    ELSE CASE mode = "escaped" -> <<"escaped">> \o ReadAs(p, k + 1, "plain")
           [] mode = "group" ->
                <<"group">> \o ReadAs(p, k + 1, IF p[k] = "]" THEN "plain" ELSE "group")
           [] OTHER ->
                <<"plain">> \o ReadAs(p, k + 1,
                                 CASE p[k] = BackSlash -> "escaped"
                                   [] p[k] = "[" -> "group"
                                   [] OTHER -> "plain")

\* the same reading, with the character after a leading ^ taken as its payload
RECURSIVE ReadWithPayload(_, _, _)
ReadWithPayload(p, k, mode) ==
    IF k > Len(p) THEN <<>>
    ELSE CASE mode = "escaped" -> <<"escaped">> \o ReadWithPayload(p, k + 1, "plain")
           [] mode = "group" ->
                <<"group">> \o ReadWithPayload(p, k + 1,
                                 IF p[k] = "]" THEN "plain" ELSE "group")
           [] mode = "payload" -> <<"payload">> \o ReadWithPayload(p, k + 1, "plain")
           [] OTHER ->
                <<"plain">> \o ReadWithPayload(p, k + 1,
                                 CASE p[k] = BackSlash -> "escaped"
                                   [] p[k] = "[" -> "group"
                                   [] p[k] = "^" /\ k = 1 -> "payload"
                                   [] OTHER -> "plain")

EscapeForms == {"d", "w", BackSlash, "[", "^", "$", "+"}

\* the five malformations of C4 under a reading m of the pattern p;
\* anywhere = TRUE takes a backslash inside a bracket group as an escape too
Malformed(p, m, anywhere) ==
    \/ \E k \in 1..Len(p) :
          /\ p[k] = BackSlash
          /\ IF anywhere THEN m[k] # "escaped" ELSE m[k] = "plain"
          /\ (k = Len(p) \/ p[k + 1] \notin EscapeForms)
    \/ \E k \in 1..Len(p) :
          /\ p[k] = "[" /\ m[k] = "plain"
          /\ ~(\E j \in (k + 1)..Len(p) : p[j] = "]")
    \/ \E k \in 2..Len(p) : p[k] = "^" /\ m[k] = "plain"
    \/ \E k \in 1..(Len(p) - 1) : p[k] = "$" /\ m[k] = "plain"
    \/ Len(p) >= 1 /\ p[1] = "+"

\* C4 as stated: parse_pattern fails on every pattern with a bad escape after
\* an unescaped backslash, an unclosed group, an unescaped ^ outside a group
\* that is not first, an unescaped $ outside a group that is not last, or a +
\* with nothing before it.
C4_MalformedPatternFails ==
    (pc # "parse" /\ Malformed(pattern_str, ReadAs(pattern_str, 1, "plain"), TRUE))
    => result = "compile_panic"

\* C4 as amended: the same, for the characters the scan dispatches on: those
\* not escaped, not inside a bracket group, and not the one character a
\* leading ^ consumes as its payload.
C4_DispatchedMalformedPatternFails ==
    (pc # "parse"
     /\ Malformed(pattern_str, ReadWithPayload(pattern_str, 1, "plain"), FALSE))
    => /\ result = "compile_panic"
       /\ patterns = <<>>
       /\ pc = "done"

C4_Witness ==
    /\ Finished /\ result = "compile_panic"
    /\ Len(pattern_str) >= 3
    /\ pattern_str[1] = "^"
    /\ pattern_str[3] = BackSlash
    /\ Malformed(pattern_str, ReadWithPayload(pattern_str, 1, "plain"), FALSE)

\* C5: once parse_pattern has accepted the pattern, pattern_matches ends with
\* true or false on every line, never with a panic.
C5_AcceptedPatternNeverPanics ==
    (Finished /\ Compiled) => result \in {"true", "false"}

\* C6: for distinct literal characters a and b, the pattern a+b matches every
\* line in which an a is immediately followed by b.
C6_GreedyRunThenNext ==
    \A a \in {"a", "b"} : \A b \in {"a", "b"} \ {a} :
        ( /\ Finished
          /\ pattern_str = <<a, "+", b>>
          /\ \E j \in 1..(Len(input_str) - 1) :
                input_str[j] = a /\ input_str[j + 1] = b )
        => result = "true"

\* C6 holds of every run in which pattern_matches returns
C6_WhenReturned ==
    (Finished /\ Returned) => C6_GreedyRunThenNext

\* C7: when the first node is a StartAnchor, true is returned only by the
\* walk that began at start offset 0.
C7_StartAnchorPinsOffsetZero ==
    (Finished /\ first_is_start_anchor(patterns) /\ result = "true") => i = 0

\* C8: inside one walk the cursor only advances; a step that matches a
\* OneOrMore node leaves the cursor just past the maximal run of characters
\* that satisfy its child; so c+c matches no line and returns false on a
\* line of c's.
OneOrMoreMatches ==
    /\ pc = "walk"
    /\ cursor < Len(input_str)
    /\ pattern_idx < Len(patterns)
    /\ patterns[pattern_idx + 1].kind = "OneOrMore"
    /\ Satisfies(input_str[cursor + 1], patterns[pattern_idx + 1])

C9_WrappingOneLevelDeep ==
    Compiled =>
        \A k \in 1..Len(patterns) :
            patterns[k].kind \in {"EndAnchor", "OneOrMore"} =>
                patterns[k].child.kind \notin {"OneOrMore", "EndAnchor", "StartAnchor"}

\* C10: a pattern X c+$, X literal characters and c a literal character,
\* matches every line that ends with X followed by one or more c.
EndsWithRun(line, X, c) ==
    \E m \in 1..(Len(line) - Len(X)) :
        LET from == Len(line) - m - Len(X)
        IN  /\ \A k \in 1..Len(X) : line[from + k] = X[k]
            /\ \A k \in 1..m : line[from + Len(X) + k] = c

C10_QuantifierKeptBeforeEndAnchor ==
    \A X \in Seqs({"a", "b"}, 1), c \in {"a", "b"} :
        ( /\ Finished
          /\ pattern_str = X \o <<c, "+", "$">>
          /\ EndsWithRun(input_str, X, c) )
        => result = "true"
====
